---- MODULE Spec2Model ----
(***************************************************************************)
(* Model of the job recommender (src/ai_recommender.py) and of the Flask   *)
(* handlers that drive it (src/app.py).                                    *)
(*                                                                         *)
(* Strings are sequences of one-character strings, so that lower-casing,   *)
(* the regular expressions and the tokenisers act on characters as the     *)
(* code's do.  A pandas missing value is NaN, Python's None is None.       *)
(*                                                                         *)
(* The TF-IDF weights are modelled by the term counts of each document     *)
(* over the fitted vocabulary; sklearn's smoothed idf factor               *)
(* ln((1+n)/(1+df))+1 is a positive scale per column that has no exact     *)
(* integer form and is left out.  A cosine similarity is kept exactly, as  *)
(* the rational dot^2 / (|q|^2 |d|^2) (the square of the cosine, which is  *)
(* monotone in it because no weight is negative).                          *)
(***************************************************************************)
EXTENDS Integers, Sequences, FiniteSets, TLC

\* the record of a call, as the variable ret keeps it: the operation, its
\* arguments, the exception it raised ("none" when it returned), the value it
\* returned, and what else the properties read of it
Call(op, args, exc, value, aux) ==
  [op |-> op, args |-> args, exc |-> exc, value |-> value, aux |-> aux]

\* Python's None where an object is expected, and where a string is expected
None == [type |-> "NoneType"]
NoText == << "None" >>
\* a missing value of a text column (pandas NaN)
NaN == << "NaN" >>

Min(a, b) == IF a <= b THEN a ELSE b
Max(a, b) == IF a >= b THEN a ELSE b

(***************************************************************************)
(* Characters and Python's string primitives.                              *)
(***************************************************************************)
LowerCase ==
  << "a", "b", "c", "d", "e", "f", "g", "h", "i", "j", "k", "l", "m",
     "n", "o", "p", "q", "r", "s", "t", "u", "v", "w", "x", "y", "z" >>
UpperCase ==
  << "A", "B", "C", "D", "E", "F", "G", "H", "I", "J", "K", "L", "M",
     "N", "O", "P", "Q", "R", "S", "T", "U", "V", "W", "X", "Y", "Z" >>
Digits == { "0", "1", "2", "3", "4", "5", "6", "7", "8", "9" }

IsLower(c) == \E k \in 1..Len(LowerCase) : LowerCase[k] = c
IsUpper(c) == \E k \in 1..Len(UpperCase) : UpperCase[k] = c
IsSpace(c) == c = " "
\* \w of Python's re on str: letters, digits and the underscore
IsWordChar(c) == IsLower(c) \/ IsUpper(c) \/ c \in Digits \/ c = "_"

\* str.lower() on one character
LowerChar(c) ==
  IF IsUpper(c) THEN LowerCase[CHOOSE k \in 1..Len(UpperCase) : UpperCase[k] = c]
  ELSE c
\* str.lower()
Lower(s) == [i \in 1..Len(s) |-> LowerChar(s[i])]

\* the position of a character in the code-point order of the characters a
\* feature name can hold (the space, then the lower-case letters)
CharRank(c) ==
  IF IsLower(c) THEN CHOOSE k \in 1..Len(LowerCase) : LowerCase[k] = c ELSE 0

\* s < t, for Python strings (lexicographic by code point)
RECURSIVE StrLess(_, _)
StrLess(s, t) ==
  IF t = << >> THEN FALSE
  ELSE IF s = << >> THEN TRUE
  ELSE IF CharRank(Head(s)) # CharRank(Head(t))
       THEN CharRank(Head(s)) < CharRank(Head(t))
  ELSE StrLess(Tail(s), Tail(t))

\* ' '.join(words)
RECURSIVE Join(_)
Join(words) ==
  IF words = << >> THEN << >>
  ELSE IF Len(words) = 1 THEN words[1]
  ELSE words[1] \o << " " >> \o Join(Tail(words))

\* the maximal runs of s, in order, of word characters (kind "word") or of
\* characters that are not white space (kind "nonspace")
Keeps(kind, c) == IF kind = "word" THEN IsWordChar(c) ELSE ~IsSpace(c)
RECURSIVE Runs(_, _, _)
Runs(s, cur, kind) ==
  IF s = << >> THEN (IF cur = << >> THEN << >> ELSE << cur >>)
  ELSE IF Keeps(kind, Head(s)) THEN Runs(Tail(s), Append(cur, Head(s)), kind)
  ELSE (IF cur = << >> THEN << >> ELSE << cur >>) \o Runs(Tail(s), << >>, kind)

\* s[:n] for n >= 0
Prefix(s, n) == SubSeq(s, 1, Min(Len(s), n))

\* Python's seq[-k:] : the last k elements for k > 0, the whole sequence for
\* k = 0 (-0 is 0), and seq[|k|:] for k < 0
LastSlice(s, k) ==
  IF k > 0 THEN SubSeq(s, Len(s) - Min(k, Len(s)) + 1, Len(s))
  ELSE SubSeq(s, Min(0 - k, Len(s)) + 1, Len(s))

\* seq[::-1]
Reverse(s) == [i \in 1..Len(s) |-> s[Len(s) + 1 - i]]

\* DataFrame.head(n): the first n rows for n >= 0, all but the last |n| for n < 0
HeadRows(s, n) ==
  IF n >= 0 THEN Prefix(s, n) ELSE SubSeq(s, 1, Max(Len(s) + n, 0))

(***************************************************************************)
(* JobRecommender.preprocess_text                                          *)
(***************************************************************************)
\* the members of nltk's English stop-word list the model's texts can hold
stop_words ==
  { << "t", "h", "e" >>, << "a", "n", "d" >>, << "f", "o", "r" >>,
    << "c", "a", "n" >>, << "n", "o", "t" >> }

\* re.sub(r'[^a-zA-Z\s]', '', text)
StripNonAlpha(text) ==
  SelectSeq(text, LAMBDA c : IsLower(c) \/ IsUpper(c) \/ IsSpace(c))

\* the words nltk's Treebank tokenizer splits in two (CONTRACTIONS2), with the
\* length of the first part
contractions ==
  { [word |-> << "c", "a", "n", "n", "o", "t" >>, first |-> 3],
    [word |-> << "g", "o", "t", "t", "a" >>, first |-> 3],
    [word |-> << "g", "o", "n", "n", "a" >>, first |-> 3] }

\* the tokens of one word: a contraction, in any case, is split in two
split_contraction(w) ==
  IF \E c \in contractions : c.word = Lower(w)
  THEN LET c == CHOOSE c \in contractions : c.word = Lower(w)
       IN  << SubSeq(w, 1, c.first), SubSeq(w, c.first + 1, Len(w)) >>
  ELSE << w >>

RECURSIVE Flatten(_)
Flatten(seqs) == IF seqs = << >> THEN << >> ELSE Head(seqs) \o Flatten(Tail(seqs))

\* word_tokenize on a text of letters and white space: its words, the
\* contractions split
word_tokenize(text) ==
  LET words == Runs(text, << >>, "nonspace")
  IN  Flatten([i \in 1..Len(words) |-> split_contraction(words[i])])

\* preprocess_text with the special characters removed after the tokens are
\* filtered instead of before
preprocess_text_filter_first(text) ==
  IF text = NaN \/ text = NoText THEN << >>
  ELSE LET tokens == word_tokenize(Lower(text))
       IN  StripNonAlpha(Join(SelectSeq(tokens, LAMBDA w : w \notin stop_words /\ Len(w) > 2)))

preprocess_text(text) ==
  IF text = NaN \/ text = NoText THEN << >>
  ELSE LET tokens == word_tokenize(StripNonAlpha(Lower(text)))
       IN  Join(SelectSeq(tokens, LAMBDA w : w \notin stop_words /\ Len(w) > 2))

(***************************************************************************)
(* The corpus: rows of the dataset, with the columns the recommender reads *)
(* (job, job_details, location, work_type).  The other columns of a result *)
(* (company_name, no_of_application, linkedin_followers, posted_hours_ago) *)
(* are copied through unread and are not modelled.                         *)
(***************************************************************************)
MaxRows == 5000
DataFrame(rows) == [type |-> "DataFrame", rows |-> rows, columns |-> {}]
MaxDescription == 500

\* Series.astype(str) on a text column: a missing value becomes 'nan'
astype_str(v) == IF v = NaN THEN << "n", "a", "n" >> ELSE v

\* JobRecommender.prepare_features, for one row: its processed_features
processed_features(row) ==
  preprocess_text(astype_str(row.job) \o << " " >>
                  \o Prefix(astype_str(row.job_details), MaxDescription))

\* JobRecommender.prepare_features: the two columns it adds to self.df
prepare_features(df) ==
  [df EXCEPT !.columns = @ \cup { "combined_features", "processed_features" }]

\* the column processed_features of self.df after prepare_features
Documents(df) == [i \in 1..Len(df.rows) |-> processed_features(df.rows[i])]

(***************************************************************************)
(* TfidfVectorizer(max_features=1000, ngram_range=(1, 2), min_df=2,        *)
(* max_df=0.8)                                                             *)
(***************************************************************************)
max_features == 1000
min_df == 2
\* max_df = 0.8, in tenths
max_df_tenths == 8

\* the analyzer: lower-case, tokens of two or more word characters, then the
\* unigrams followed by the bigrams
build_analyzer(doc) ==
  LET toks == SelectSeq(Runs(Lower(doc), << >>, "word"), LAMBDA w : Len(w) >= 2)
  IN  toks \o [i \in 1..(Len(toks) - 1) |-> toks[i] \o << " " >> \o toks[i + 1]]

\* the number of occurrences of a term among the n-grams of a document
TermCount(term, grams) == Cardinality({ k \in 1..Len(grams) : grams[k] = term })

RECURSIVE SumOver(_, _)
SumOver(f, S) ==
  IF S = {} THEN 0 ELSE LET x == CHOOSE y \in S : TRUE IN f[x] + SumOver(f, S \ {x})

\* sorted(S), for a set of strings
RECURSIVE SortTerms(_)
SortTerms(S) ==
  IF S = {} THEN << >>
  ELSE LET m == CHOOSE x \in S : \A y \in S \ {x} : StrLess(x, y)
       IN  << m >> \o SortTerms(S \ {m})

\* _limit_features keeping every term, whatever its document frequency
limit_features_unpruned(terms, dfs, tfs, n_doc) == terms

\* CountVectorizer._limit_features: of the terms, those whose document frequency
\* dfs[t] is within [min_df, max_df * n_doc], and of these the max_features
\* ones with the highest total count tfs[t] ((-tfs).argsort()[:max_features];
\* among equal counts at the cut the sort decides, here the order of the terms)
limit_features(terms, dfs, tfs, n_doc) ==
  LET kept == { t \in terms : dfs[t] >= min_df /\ 10 * dfs[t] <= max_df_tenths * n_doc }
      Before(u, t) == tfs[u] > tfs[t] \/ (tfs[u] = tfs[t] /\ StrLess(u, t))
  IN  IF Cardinality(kept) <= max_features THEN kept
      ELSE { t \in kept : Cardinality({ u \in kept : Before(u, t) }) < max_features }

\* the vectorizer as constructed (not fitted)
NewVectorizer == [type |-> "TfidfVectorizer", fitted |-> FALSE, vocabulary_ |-> << >>]

\* TfidfVectorizer.transform of one document: its weight per vocabulary position
transform_row(vectorizer, doc) ==
  LET grams == build_analyzer(doc)
  IN  [j \in 1..Len(vectorizer.vocabulary_) |->
         TermCount(vectorizer.vocabulary_[j], grams)]

\* TfidfVectorizer.transform: the matrix, one row per document
transform(vectorizer, docs) ==
  [type |-> "csr_matrix",
   rows |-> [i \in 1..Len(docs) |-> transform_row(vectorizer, docs[i])],
   n_cols |-> Len(vectorizer.vocabulary_)]

\* TfidfVectorizer.fit_transform: the exception it raises ("none" when it
\* returns), the vectorizer once fitted and the matrix it returns
fit_transform(docs) ==
  LET grams == [i \in 1..Len(docs) |-> build_analyzer(docs[i])]
      terms == UNION { { grams[i][k] : k \in 1..Len(grams[i]) } : i \in 1..Len(docs) }
      dfs   == [t \in terms |->
                  Cardinality({ i \in 1..Len(docs) : TermCount(t, grams[i]) > 0 })]
      tfs   == [t \in terms |->
                  SumOver([i \in 1..Len(docs) |-> TermCount(t, grams[i])],
                          1..Len(docs))]
      kept  == limit_features(terms, dfs, tfs, Len(docs))
      v     == [type |-> "TfidfVectorizer", fitted |-> TRUE,
                vocabulary_ |-> SortTerms(kept)]
      e     == IF terms = {} THEN "ValueError"            \* empty vocabulary
               ELSE IF max_df_tenths * Len(docs) < 10 * min_df
                 THEN "ValueError"                        \* max_df < min_df
               ELSE IF kept = {} THEN "ValueError"        \* no terms remain
               ELSE "none"
  IN  IF e # "none" THEN [exc |-> e, vectorizer |-> NewVectorizer, matrix |-> None]
      ELSE [exc |-> "none", vectorizer |-> v, matrix |-> transform(v, docs)]

(***************************************************************************)
(* cosine_similarity                                                       *)
(***************************************************************************)
RECURSIVE GCD(_, _)
GCD(a, b) == IF b = 0 THEN a ELSE GCD(b, a % b)

Dot(u, v) == SumOver([j \in 1..Len(u) |-> u[j] * v[j]], 1..Len(u))

\* the squared cosine of two rows as a reduced fraction; 0 when either is zero
cosine(u, v) ==
  LET num == Dot(u, v) * Dot(u, v)
      den == Dot(u, u) * Dot(v, v)
  IN  IF den = 0 \/ num = 0 THEN [num |-> 0, den |-> 1]
      ELSE [num |-> num \div GCD(num, den), den |-> den \div GCD(num, den)]

SimLess(a, b) == a.num * b.den < b.num * a.den

\* cosine_similarity(query_vector, matrix).flatten()
cosine_similarity(query_vector, matrix) ==
  [i \in 1..Len(matrix.rows) |-> cosine(query_vector, matrix.rows[i])]

\* numpy's argsort (kind 'quicksort', which is not stable): every order of the
\* positions that puts the values in ascending order
RECURSIVE ArgsortFrom(_, _)
ArgsortFrom(values, left) ==
  IF left = {} THEN { << >> }
  ELSE UNION { { << m >> \o rest : rest \in ArgsortFrom(values, left \ {m}) }
               : m \in { i \in left : \A j \in left : ~SimLess(values[j], values[i]) } }
argsort(values) == ArgsortFrom(values, 1..Len(values))

(***************************************************************************)
(* The datasets of the model.                                              *)
(***************************************************************************)
MaxCorpus == 4

\* rows of a dataset: their documents are 'sql dev', 'sql nan', 'web dev' and
\* 'web'
RowA == [job |-> << "S", "q", "l" >>, job_details |-> << "d", "e", "v" >>,
         location |-> << "N", "Y" >>, work_type |-> << "O", "n" >>]
RowB == [job |-> << "S", "Q", "L" >>, job_details |-> NaN,
         location |-> << "n", "y", "c" >>, work_type |-> << "O", "f" >>]
RowC == [job |-> << "W", "e", "b" >>,
         job_details |-> << "t", "h", "e", " ", "d", "e", "v", "2" >>,
         location |-> NaN, work_type |-> << "O", "n" >>]
RowD == [job |-> << "A", "I" >>, job_details |-> << "w", "e", "b", "!" >>,
         location |-> << "L", "A" >>, work_type |-> << "O", "f" >>]
Rows == { RowA, RowB, RowC }

\* every dataset of at most MaxCorpus rows
Corpora == UNION { [1..n -> Rows] : n \in 1..MaxCorpus }

\* the datasets a process is started on: two that train to different indexes
\* and one too small to train on
Datasets == { << RowA, RowB, RowC >>, << RowD, RowC, RowA, RowB >>, << RowA, RowB >> }

\* line 117 for every dataset of the model, computed once: fit_transform on the
\* column processed_features of the frame with these rows
FitTransform ==
  [rows \in Corpora \cup Datasets |->
     fit_transform(Documents(DataFrame(Prefix(rows, MaxRows))))] @@ << >>

(***************************************************************************)
(* JobRecommender: construction, training and persistence.  An operation   *)
(* is an operator from the instance (self) and the models directory to the *)
(* instance and directory it leaves, the exception it raises ("none" when  *)
(* it returns) and the value it returns.                                   *)
(***************************************************************************)
\* JobRecommender.__init__
JobRecommender(csv) ==
  [type |-> "JobRecommender", df |-> DataFrame(Prefix(csv, MaxRows)),
   vectorizer |-> None, tfidf_matrix |-> None]

\* a file of the models directory: absent, unreadable (truncated), or the
\* pickle of an object
Absent == [type |-> "absent"]
Corrupt == [type |-> "corrupt"]
Pickle(obj) == [type |-> "pickle", obj |-> obj]
Readable(file) == file.type = "pickle"

\* the models directory.  last_save is not a file: it keeps, for the
\* properties that tell one save from another, the vectorizer and the matrix
\* that the last save_model call to complete wrote
EmptyDir ==
  [vectorizer |-> Absent, matrix |-> Absent, df |-> Absent,
   last_save |-> [vectorizer |-> None, tfidf_matrix |-> None]]

\* one dump of save_model, the position-th of the three: it completes when the
\* save gets past it, is cut short (leaving a truncated file when torn) when the
\* save fails in it, and is not started when the save failed before it
Dump(old, obj, position, written, torn) ==
  IF position <= written THEN Pickle(obj)
  ELSE IF position = written + 1 /\ torn THEN Corrupt
  ELSE old

\* JobRecommender.save_model.  written is the number of artifacts dumped before
\* an I/O failure (3: none fails)
save_model(self, dir, written, torn) ==
  [self |-> self,
   dir |-> [vectorizer |-> Dump(dir.vectorizer, self.vectorizer, 1, written, torn),
            matrix |-> Dump(dir.matrix, self.tfidf_matrix, 2, written, torn),
            df |-> Dump(dir.df, self.df, 3, written, torn),
            last_save |->
              IF written = 3
              THEN [vectorizer |-> self.vectorizer,
                    tfidf_matrix |-> self.tfidf_matrix]
              ELSE dir.last_save],
   exc |-> IF written < 3 THEN "OSError" ELSE "none",
   value |-> None]

\* load_model without its try/except: the failure to read a file propagates
load_model_unguarded(self, dir) ==
  LET s1 == [self EXCEPT !.vectorizer = dir.vectorizer.obj]
      s2 == [s1 EXCEPT !.tfidf_matrix = dir.matrix.obj]
      s3 == [s2 EXCEPT !.df = dir.df.obj]
      res(s, e, v) == [self |-> s, dir |-> dir, exc |-> e, value |-> v]
  IN  IF ~Readable(dir.vectorizer) THEN res(self, "FileNotFoundError", FALSE)
      ELSE IF ~Readable(dir.matrix) THEN res(s1, "FileNotFoundError", FALSE)
      ELSE IF ~Readable(dir.df) THEN res(s2, "FileNotFoundError", FALSE)
      ELSE res(s3, "none", TRUE)

\* JobRecommender.load_model
load_model(self, dir) ==
  LET s1 == [self EXCEPT !.vectorizer = dir.vectorizer.obj]
      s2 == [s1 EXCEPT !.tfidf_matrix = dir.matrix.obj]
      s3 == [s2 EXCEPT !.df = dir.df.obj]
      res(s, v) == [self |-> s, dir |-> dir, exc |-> "none", value |-> v]
  IN  IF ~Readable(dir.vectorizer) THEN res(self, FALSE)
      ELSE IF ~Readable(dir.matrix) THEN res(s1, FALSE)
      ELSE IF ~Readable(dir.df) THEN res(s2, FALSE)
      ELSE res(s3, TRUE)

\* JobRecommender.train_model, lines 109-122: prepared is self once
\* prepare_features has run, fit the outcome of line 117
fit_and_save(prepared, fit, dir, written, torn) ==
  IF fit.exc # "none"
  THEN [self |-> [prepared EXCEPT !.vectorizer = NewVectorizer], dir |-> dir,
        exc |-> fit.exc, value |-> None]
  ELSE save_model([prepared EXCEPT !.vectorizer = fit.vectorizer,
                                   !.tfidf_matrix = fit.matrix],
                  dir, written, torn)

\* the number of rows of the matrix an instance holds (0 with no matrix)
MatrixRows(self) ==
  IF self.tfidf_matrix = None THEN 0 ELSE Len(self.tfidf_matrix.rows)

\* line 117 appending to the matrix in place of assigning it
merged(self, fit) ==
  IF fit.exc = "none" /\ self.tfidf_matrix # None
  THEN [fit EXCEPT !.matrix.rows = self.tfidf_matrix.rows \o @]
  ELSE fit

\* train_model that merges the new rows into the matrix it held
train_model_merging(self, dir, written, torn) ==
  fit_and_save([self EXCEPT !.df = prepare_features(@)],
               merged(self, FitTransform[self.df.rows]), dir, written, torn)

\* JobRecommender.train_model
train_model(self, dir, written, torn) ==
  fit_and_save([self EXCEPT !.df = prepare_features(@)], FitTransform[self.df.rows],
               dir, written, torn)

(***************************************************************************)
(* JobRecommender.get_recommendations                                      *)
(***************************************************************************)
\* re.search(pat, s, re.IGNORECASE), which is what Series.str.contains(pat,
\* case=False) evaluates (regex=True is its default): of the characters the
\* model's filters hold only '.' is special, and matches any character
re_search(pat, s) ==
  \E off \in 0..(Len(s) - Len(pat)) :
    \A i \in 1..Len(pat) : pat[i] = "." \/ LowerChar(pat[i]) = LowerChar(s[off + i])

\* Series.str.contains(pat, case=False, na=False) on one value
str_contains(value, pat) == IF value = NaN THEN FALSE ELSE re_search(pat, value)

\* a text column of the frame read from the CSV holds strings (dtype object)
\* unless every value is missing (dtype float64, which has no .str accessor)
HasStrAccessor(df, column) ==
  df.rows = << >> \/ \E i \in 1..Len(df.rows) : df.rows[i][column] # NaN

\* `if f and f != 'all'`
FilterGiven(f) == f # NoText /\ f # << >> /\ f # << "a", "l", "l" >>

\* lines 127-133: the query's similarity to every row.  With no matrix,
\* cosine_similarity(X, None) compares X with itself
similarities(self, query) ==
  LET query_vector == transform_row(self.vectorizer, preprocess_text(query))
  IN  IF self.tfidf_matrix = None THEN << cosine(query_vector, query_vector) >>
      ELSE cosine_similarity(query_vector, self.tfidf_matrix)

\* the exception lines 127-133 raise, if any
similarities_error(self) ==
  IF self.vectorizer = None THEN "AttributeError"
  ELSE IF ~self.vectorizer.fitted THEN "NotFittedError"
  ELSE IF self.tfidf_matrix # None
          /\ self.tfidf_matrix.n_cols # Len(self.vectorizer.vocabulary_)
       THEN "ValueError"
  ELSE "none"

\* line 136, given the order argsort() returned
top_indices(order, top_n) == Reverse(LastSlice(order, top_n * 3))

\* line 150 left out: every row that passed the filters is returned
truncate_skipped(results, top_n) == results

\* line 150
truncate(results, top_n) == HeadRows(results, top_n)

\* lines 143-147, one filter
apply_filter(results, column, f) ==
  IF FilterGiven(f) THEN SelectSeq(results, LAMBDA r : str_contains(r[column], f))
  ELSE results

\* lines 139-140: the rows at the positions top, each with its similarity.  A
\* candidate keeps the position of its row (index), which to_dict('records')
\* drops
candidates(self, sims, top) ==
  [k \in 1..Len(top) |->
     [index |-> top[k], job |-> self.df.rows[top[k]].job,
      location |-> self.df.rows[top[k]].location,
      work_type |-> self.df.rows[top[k]].work_type,
      job_details |-> self.df.rows[top[k]].job_details,
      similarity_score |-> sims[top[k]]]]

\* lines 136-156, given the order argsort() returned
get_recommendations(self, query, top_n, location_filter, work_type_filter, order) ==
  LET top     == top_indices(order, top_n)
      located == apply_filter(candidates(self, similarities(self, query), top),
                              "location", location_filter)
      typed   == apply_filter(located, "work_type", work_type_filter)
      res(e, v) == [self |-> self, exc |-> e, value |-> v, top_indices |-> top]
  IN  IF \E k \in 1..Len(top) : top[k] > Len(self.df.rows)
        THEN res("IndexError", << >>)
      ELSE IF FilterGiven(location_filter) /\ ~HasStrAccessor(self.df, "location")
        THEN res("AttributeError", << >>)
      ELSE IF FilterGiven(work_type_filter) /\ ~HasStrAccessor(self.df, "work_type")
        THEN res("AttributeError", << >>)
      ELSE res("none", truncate(typed, top_n))

\* every outcome of get_recommendations: one per order argsort() can return
get_recommendations_outcomes(self, query, top_n, location_filter, work_type_filter) ==
  IF similarities_error(self) # "none"
  THEN { [self |-> self, exc |-> similarities_error(self), value |-> << >>,
          top_indices |-> << >>] }
  ELSE { get_recommendations(self, query, top_n, location_filter,
                             work_type_filter, order)
         : order \in argsort(similarities(self, query)) }

(***************************************************************************)
(* JobRecommender.extract_top_skills and cluster_jobs                      *)
(***************************************************************************)
\* self.tfidf_matrix.sum(axis=0).A1
column_sums(matrix) ==
  [j \in 1..matrix.n_cols |->
     [num |-> SumOver([i \in 1..Len(matrix.rows) |-> matrix.rows[i][j]],
                      1..Len(matrix.rows)),
      den |-> 1]]

extract_top_skills_error(self) ==
  IF self.vectorizer = None THEN "AttributeError"
  ELSE IF ~self.vectorizer.fitted THEN "NotFittedError"
  ELSE IF self.tfidf_matrix = None THEN "AttributeError"
  ELSE "none"

\* lines 192-196, given the order argsort() returned
extract_top_skills(self, top_n, order) ==
  LET feature_names == self.vectorizer.vocabulary_
      tfidf_scores  == column_sums(self.tfidf_matrix)
      top           == Reverse(LastSlice(order, top_n))
  IN  IF \E k \in 1..Len(top) : top[k] > Len(feature_names)
      THEN [self |-> self, exc |-> "IndexError", value |-> << >>]
      ELSE [self |-> self, exc |-> "none",
            value |-> [k \in 1..Len(top) |->
                         << feature_names[top[k]], tfidf_scores[top[k]] >>]]

extract_top_skills_outcomes(self, top_n) ==
  IF extract_top_skills_error(self) # "none"
  THEN { [self |-> self, exc |-> extract_top_skills_error(self), value |-> << >>] }
  ELSE { extract_top_skills(self, top_n, order)
         : order \in argsort(column_sums(self.tfidf_matrix)) }

\* JobRecommender.cluster_jobs.  The partition KMeans computes is not modelled:
\* the report is kept as its number of clusters, the column 'cluster' by its name
cluster_jobs(self, n_clusters) ==
  LET s1 == [self EXCEPT !.df.columns = @ \cup { "cluster" }]
      res(s, e, v) == [self |-> s, exc |-> e, value |-> v]
  IN  IF self.tfidf_matrix = None THEN res(self, "ValueError", 0)
      ELSE IF n_clusters < 1 \/ Len(self.tfidf_matrix.rows) < n_clusters
        THEN res(self, "ValueError", 0)
      ELSE IF Len(self.tfidf_matrix.rows) # Len(self.df.rows)
        THEN res(self, "ValueError", 0)
      ELSE IF self.vectorizer = None THEN res(s1, "AttributeError", 0)
      ELSE IF ~self.vectorizer.fitted THEN res(s1, "NotFittedError", 0)
      \* feature_names[idx]: with fewer than ten columns every column is among
      \* the ten top terms of a centre
      ELSE IF self.tfidf_matrix.n_cols > Len(self.vectorizer.vocabulary_)
        THEN res(s1, "IndexError", 0)
      ELSE res(s1, "none", n_clusters)

(***************************************************************************)
(* The Flask application (src/app.py)                                      *)
(***************************************************************************)
USERS == [u \in { "admin", "user", "demo" } |->
            CASE u = "admin" -> "admin123" [] u = "user" -> "user123"
              [] u = "demo" -> "demo123"]

\* a key a JSON body or a form does not hold
Missing == << "Missing" >>
DefaultLimit == 10
DefaultSkills == 30

Response(status, body) == [status |-> status, body |-> body]
\* login_required: the redirect to the login page
RedirectToLogin == Response(302, "login")

\* what a view did: its response, and the components (recommender, visualizer,
\* analyzer) it called
Outcome(resp, invoked) == [resp |-> resp, invoked |-> invoked]

\* a route without the decorator: the view runs whatever the session holds
login_required_open(sess, view) == view

\* login_required, lines 42-49: the view runs only when the session holds
\* 'logged_in'; otherwise the request is redirected to the login page
login_required(sess, view) ==
  IF ~sess.logged_in THEN { Outcome(RedirectToLogin, {}) } ELSE view

\* int(data.get('limit', default)): the exception it raises, and its value
int_error(limit) ==
  IF limit.kind = "str" THEN "ValueError"
  ELSE IF limit.kind = "null" THEN "TypeError"
  ELSE "none"
int_value(limit, default) == IF limit.kind = "missing" THEN default ELSE limit.n

\* data.get(key, default) for a text key
get_text(value, default) == IF value = Missing THEN default ELSE value

\* `x if x != 'all' else None`
all_to_none(f) == IF f = << "a", "l", "l" >> THEN NoText ELSE f

\* search_jobs, lines 168-176: the response decided before the recommender is
\* called, or "call" when it is called
search_jobs_early(data) ==
  IF data = None THEN Response(500, "AttributeError")
  ELSE IF int_error(data.limit) # "none" THEN Response(500, int_error(data.limit))
  ELSE IF get_text(data.query, << >>) \in { << >>, NoText }
    THEN Response(400, "Query is required")
  ELSE Response(0, "call")

\* search_jobs, lines 179-193: the responses of a request that gets to line 179
search_jobs_call(rec, data) ==
  IF rec = None THEN { Response(500, "AttributeError") }
  ELSE { IF o.exc # "none" THEN Response(500, o.exc)
         ELSE Response(200, [success |-> TRUE, count |-> Len(o.value),
                             results |-> o.value])
         : o \in get_recommendations_outcomes(
                   rec, data.query, int_value(data.limit, DefaultLimit),
                   all_to_none(get_text(data.location, << "a", "l", "l" >>)),
                   all_to_none(get_text(data.work_type, << "a", "l", "l" >>))) }

\* get_top_skills: its responses
get_top_skills(rec, limit) ==
  IF int_error(limit) # "none" THEN { Response(500, int_error(limit)) }
  ELSE IF rec = None THEN { Response(500, "AttributeError") }
  ELSE { IF o.exc # "none" THEN Response(500, o.exc)
         ELSE Response(200, [success |-> TRUE, skills |-> o.value])
         : o \in extract_top_skills_outcomes(rec, int_value(limit, DefaultSkills)) }

\* lines 76-78 without the call of train_model: a failed load is only reported
load_or_train_untrained(loaded, written, torn) ==
  [call |-> loaded, loaded |-> loaded.value, trained |-> FALSE]

\* initialize_app, lines 76-78: loaded is the outcome of load_model
load_or_train(loaded, written, torn) ==
  IF ~loaded.value
  THEN [call |-> train_model(loaded.self, loaded.dir, written, torn),
        loaded |-> FALSE, trained |-> TRUE]
  ELSE [call |-> loaded, loaded |-> TRUE, trained |-> FALSE]

\* initialize_app: lines 56-62 raise for a missing dataset, before the global
\* recommender is assigned
initialize_app(rec, dir, csv, written, torn) ==
  IF csv = Missing
  THEN [call |-> [self |-> rec, dir |-> dir, exc |-> "FileNotFoundError",
                  value |-> None],
        loaded |-> FALSE, trained |-> FALSE]
  ELSE load_or_train(load_model(JobRecommender(csv), dir), written, torn)

(***************************************************************************)
(* Bounds and inputs                                                       *)
(***************************************************************************)
MaxTopN == 2
MaxClusters == 2

S_sql == << "s", "q", "l" >>
S_all == << "a", "l", "l" >>

Queries == { S_sql, << "W", "e", "b", " ", "d", "e", "v" >>, << "t", "h", "e" >> }
TopNs == (0 - 1)..MaxTopN
LocationFilters == { NoText, S_all, << "n", "y" >>, << "." >> }
WorkTypeFilters == { NoText, << "o", "f" >> }

\* where a save can fail: after `written` artifacts, tearing the next or not
SaveOutcomes == { [written |-> w, torn |-> t] : w \in 0..3, t \in BOOLEAN }
                  \ { [written |-> 3, torn |-> TRUE] }

Limits == { [kind |-> "missing", n |-> 0], [kind |-> "str", n |-> 0],
            [kind |-> "int", n |-> 1] }
Bodies == { None }
          \cup [query : { Missing, << >>, S_sql }, location : { Missing, << "n", "y" >> },
                work_type : { Missing }, limit : Limits]

(***************************************************************************)
(* The state machine                                                       *)
(***************************************************************************)
VARIABLES
  recommender,   \* the JobRecommender instance (app.py's global): None until made
  models_dir,    \* the three files of the models directory
  session,       \* the Flask session of the client
  ret,           \* the last call: what was called, with what, and its outcome
  threads        \* two threads on the instance: where each is, what the query read

vars == << recommender, models_dir, session, ret, threads >>

\* what a query reads of the instance: self.vectorizer (line 130),
\* self.tfidf_matrix (line 133), the rows of self.df (line 139)
Snapshot(self) ==
  [vectorizer |-> self.vectorizer, tfidf_matrix |-> self.tfidf_matrix,
   rows |-> self.df.rows]

\* no thread is in a call.  read holds the attributes the query has read, built
\* the snapshots of the instance between the calls that change it
NoThreads ==
  [trainer |-> "idle", query |-> "idle",
   seen |-> [read |-> {}, vectorizer |-> None, tfidf_matrix |-> None, rows |-> << >>],
   built |-> {}]

NoSession == [logged_in |-> FALSE, username |-> "none"]

Init ==
  /\ recommender = None
  /\ models_dir = EmptyDir
  /\ session = NoSession
  /\ ret = Call("start", << >>, "none", None, None)
  /\ threads = NoThreads

\* recommender = JobRecommender(csv_path)
Construct(csv) ==
  /\ recommender' = JobRecommender(csv)
  /\ ret' = Call("construct", << >>, "none", None, None)
  /\ UNCHANGED << models_dir, session, threads >>

InitializeApp(csv, out) ==
  /\ \E r \in { initialize_app(recommender, models_dir, csv, out.written, out.torn) } :
       /\ recommender' = r.call.self
       /\ models_dir' = r.call.dir
       /\ ret' = Call("initialize_app", << >>, r.call.exc, None,
                      [csv_found |-> csv # Missing, loaded |-> r.loaded,
                       trained |-> r.trained,
                       store_empty |-> models_dir = EmptyDir,
                       corpus_size |-> IF csv = Missing THEN 0 ELSE Len(csv)])
  /\ UNCHANGED << session, threads >>

LoadModel ==
  /\ recommender # None
  /\ \E r \in { load_model(recommender, models_dir) } :
       /\ recommender' = r.self
       /\ ret' = Call("load_model", << >>, r.exc, r.value, None)
  /\ UNCHANGED << models_dir, session, threads >>

TrainModel(out) ==
  /\ recommender # None
  /\ \E r \in { train_model(recommender, models_dir, out.written, out.torn) } :
       /\ recommender' = r.self
       /\ models_dir' = r.dir
       /\ ret' = Call("train_model", << >>, r.exc, None,
                      [rows_before |-> MatrixRows(recommender)])
  /\ UNCHANGED << session, threads >>

SaveModel(out) ==
  /\ recommender # None
  /\ \E r \in { save_model(recommender, models_dir, out.written, out.torn) } :
       /\ models_dir' = r.dir
       /\ ret' = Call("save_model", << >>, r.exc, None, None)
  /\ UNCHANGED << recommender, session, threads >>

GetRecommendations(query, top_n, location_filter, work_type_filter) ==
  /\ recommender # None
  /\ \E r \in get_recommendations_outcomes(recommender, query, top_n,
                                           location_filter, work_type_filter) :
       /\ recommender' = r.self
       /\ ret' = Call("get_recommendations",
                      [query |-> query, top_n |-> top_n,
                       location_filter |-> location_filter,
                       work_type_filter |-> work_type_filter],
                      r.exc, r.value, r.top_indices)
  /\ UNCHANGED << models_dir, session, threads >>

ExtractTopSkills(top_n) ==
  /\ recommender # None
  /\ \E r \in extract_top_skills_outcomes(recommender, top_n) :
       /\ recommender' = r.self
       /\ ret' = Call("extract_top_skills", [top_n |-> top_n], r.exc, r.value, None)
  /\ UNCHANGED << models_dir, session, threads >>

ClusterJobs(n_clusters) ==
  /\ recommender # None
  /\ \E r \in { cluster_jobs(recommender, n_clusters) } :
       /\ recommender' = r.self
       /\ ret' = Call("cluster_jobs", [n_clusters |-> n_clusters], r.exc,
                      r.value, None)
  /\ UNCHANGED << models_dir, session, threads >>

\* POST /login
Login(username, password) ==
  /\ IF username \in DOMAIN USERS /\ USERS[username] = password
     THEN /\ session' = [logged_in |-> TRUE, username |-> username]
          /\ ret' = Call("login", [username |-> username, password |-> password],
                         "none", Response(302, "index"), None)
     ELSE /\ session' = session
          /\ ret' = Call("login", [username |-> username, password |-> password],
                         "none", Response(200, "login"), None)
  /\ UNCHANGED << recommender, models_dir, threads >>

\* GET /logout
Logout ==
  /\ session' = NoSession
  /\ ret' = Call("logout", << >>, "none", RedirectToLogin, None)
  /\ UNCHANGED << recommender, models_dir, threads >>

\* a request to a route under login_required, given what its view does: the
\* calls it can end as
protected_request(sess, op, args, view) ==
  { Call(op, args, "none", o.resp,
         [logged_in |-> sess.logged_in, invoked |-> o.invoked])
    : o \in login_required(sess, view) }

\* POST /api/search
SearchJobs(data) ==
  /\ \E early \in { search_jobs_early(data) } :
       ret' \in protected_request(session, "search_jobs", data,
                  IF early.status # 0 THEN { Outcome(early, {}) }
                  ELSE { Outcome(r, { "recommender" })
                         : r \in search_jobs_call(recommender, data) })
  /\ UNCHANGED << recommender, models_dir, session, threads >>

\* GET /api/top-skills
GetTopSkills(limit) ==
  /\ ret' \in protected_request(session, "get_top_skills", limit,
                { Outcome(r, IF int_error(limit) # "none" THEN {} ELSE { "recommender" })
                  : r \in get_top_skills(recommender, limit) })
  /\ UNCHANGED << recommender, models_dir, session, threads >>

\* GET / : not under login_required, it makes the same test itself
Index ==
  /\ ret' = Call("index", << >>, "none",
                 IF ~session.logged_in THEN RedirectToLogin
                 ELSE Response(200, "index.html"),
                 [logged_in |-> session.logged_in, invoked |-> {}])
  /\ UNCHANGED << recommender, models_dir, session, threads >>

\* GET /dashboard: the page is rendered whether create_dashboard_summary
\* returns or raises
Dashboard ==
  /\ ret' \in protected_request(session, "dashboard", << >>,
                { Outcome(Response(200, "dashboard.html"), { "visualizer" }) })
  /\ UNCHANGED << recommender, models_dir, session, threads >>

\* GET /search and GET /recommendations: a template, no component is called
Page(op, template) ==
  /\ ret' \in protected_request(session, op, << >>,
                { Outcome(Response(200, template), {}) })
  /\ UNCHANGED << recommender, models_dir, session, threads >>

\* GET /api/visualizations, GET /api/stats: the component's result, or 500 when
\* the call raises (the component is None when startup did not get to it)
ComponentApi(op, component) ==
  /\ ret' \in protected_request(session, op, << >>,
                { Outcome(Response(status, op), { component }) : status \in { 200, 500 } })
  /\ UNCHANGED << recommender, models_dir, session, threads >>

\* GET /api/filters: reads the dataset itself; 500 when that raises
GetFilters ==
  /\ ret' \in protected_request(session, "get_filters", << >>,
                { Outcome(Response(status, "get_filters"), {}) : status \in { 200, 500 } })
  /\ UNCHANGED << recommender, models_dir, session, threads >>

\* the recommender used as a library: any sequence of its operations
Next ==
  \/ \E csv \in Datasets : Construct(csv)
  \/ LoadModel
  \/ \E out \in SaveOutcomes : TrainModel(out)
  \/ \E out \in SaveOutcomes : SaveModel(out)
  \/ GetRecommendations(S_sql, 1, NoText, NoText)
  \/ ExtractTopSkills(1)
  \/ \E k \in 1..MaxClusters : ClusterJobs(k)

Spec == Init /\ [][Next]_vars

(***************************************************************************)
(* Ranking on its own: a recommender made on any dataset of at most        *)
(* MaxCorpus rows, trained or not, and one query.                          *)
(***************************************************************************)
InitRank ==
  /\ recommender \in { JobRecommender(csv) : csv \in Corpora }
  /\ models_dir = EmptyDir
  /\ session = NoSession
  /\ ret = Call("construct", << >>, "none", None, None)
  /\ threads = NoThreads

NextRank ==
  \/ ret.op = "construct" /\ TrainModel([written |-> 3, torn |-> FALSE])
  \/ /\ ret.op # "get_recommendations"
     /\ \E query \in Queries, top_n \in TopNs, location_filter \in LocationFilters,
        work_type_filter \in WorkTypeFilters :
          GetRecommendations(query, top_n, location_filter, work_type_filter)

SpecRank == InitRank /\ [][NextRank]_vars

(***************************************************************************)
(* The application: started (initialize_app) any number of times over the  *)
(* same models directory, and its requests.                                *)
(***************************************************************************)
NextApp ==
  \/ \E csv \in Datasets \cup { Missing }, out \in SaveOutcomes : InitializeApp(csv, out)
  \/ \E u \in { "admin", "guest" }, pw \in { "admin123", "user123" } : Login(u, pw)
  \/ Logout
  \/ \E data \in Bodies : SearchJobs(data)
  \/ \E limit \in Limits : GetTopSkills(limit)
  \/ Index
  \/ Dashboard
  \/ Page("search_page", "search.html")
  \/ Page("recommendations_page", "recommendations.html")
  \/ ComponentApi("get_visualizations", "visualizer")
  \/ ComponentApi("get_stats", "analyzer")
  \/ GetFilters

SpecApp == Init /\ [][NextApp]_vars

(***************************************************************************)
(* The vocabulary: training on any dataset of at most MaxCorpus rows, and  *)
(* _limit_features on the counts of a corpus with more than max_features   *)
(* terms.                                                                  *)
(***************************************************************************)
MaxLetters == 11

\* the counts of a corpus of 3 documents whose terms are the three-letter words
\* over MaxLetters letters: words in 'a' occur in one document, words in 'b' in
\* all three, the others in two; words with a 'c' in the middle occur once more
ManyTerms ==
  { << LowerCase[i], LowerCase[j], LowerCase[k] >> : i, j, k \in 1..MaxLetters }

CountTables ==
  { [terms |-> ManyTerms, n_doc |-> 3,
     dfs |-> [t \in ManyTerms |->
                IF t[1] = "a" THEN 1 ELSE IF t[1] = "b" THEN 3 ELSE 2],
     tfs |-> [t \in ManyTerms |->
                (IF t[1] = "a" THEN 1 ELSE IF t[1] = "b" THEN 3 ELSE 2)
                  + (IF t[2] = "c" THEN 1 ELSE 0)]] }

\* CountVectorizer._limit_features applied to the counts of a corpus
LimitFeatures(counts) ==
  /\ ret' = Call("limit_features", counts, "none",
                 limit_features(counts.terms, counts.dfs, counts.tfs, counts.n_doc),
                 None)
  /\ UNCHANGED << recommender, models_dir, session, threads >>

InitVocab ==
  /\ recommender \in { None } \cup { JobRecommender(csv) : csv \in Corpora }
  /\ models_dir = EmptyDir
  /\ session = NoSession
  /\ ret = Call(IF recommender = None THEN "start" ELSE "construct",
                << >>, "none", None, None)
  /\ threads = NoThreads

NextVocab ==
  \/ ret.op = "construct" /\ TrainModel([written |-> 3, torn |-> FALSE])
  \/ ret.op = "start" /\ \E counts \in CountTables : LimitFeatures(counts)

SpecVocab == InitVocab /\ [][NextVocab]_vars

(***************************************************************************)
(* preprocess_text on its own: applied to a text, then to its own result.  *)
(***************************************************************************)
MaxText == 4
TextChars == { "T", "h", "e", " ", "!", "s" }

RECURSIVE TextsOfLen(_)
TextsOfLen(n) ==
  IF n = 0 THEN { << >> }
  ELSE { Append(t, c) : t \in TextsOfLen(n - 1), c \in TextChars }

\* the texts given to preprocess_text: a missing value, every text of at most
\* MaxText characters of TextChars, and texts with stop words, short words,
\* digits, punctuation and contractions
Texts ==
  { NaN }
    \cup UNION { TextsOfLen(n) : n \in 0..MaxText }
    \cup { << "T", "h", "e", " ", "G", "o", "t", "t", "a", " ", "d", "e", "v", "!" >>,
           << "c", "a", "n", "n", "o", "t", " ", "C", "+", "+", " ", "3", "d", " ", "s", "q", "l" >>,
           << "f", "-", "o", "r", " ", " ", "a", "n", "d", " ", "w", "e", "b", " ", "a", "i" >>,
           << "g", "o", "n", "!", "n", "a", " ", "n", "a", "n" >> }

InitText ==
  /\ recommender = None
  /\ models_dir = EmptyDir
  /\ session = NoSession
  /\ ret \in { Call("start", [text |-> t], "none", None, None) : t \in Texts }
  /\ threads = NoThreads

\* preprocess_text(text)
PreprocessText ==
  /\ ret.op = "start"
  /\ ret' = Call("preprocess_text", ret.args, "none",
                 preprocess_text(ret.args.text), None)
  /\ UNCHANGED << recommender, models_dir, session, threads >>

\* preprocess_text(preprocess_text(text))
PreprocessAgain ==
  /\ ret.op = "preprocess_text"
  /\ ret' = Call("preprocess_again", [text |-> ret.args.text, first |-> ret.value],
                 "none", preprocess_text(ret.value), None)
  /\ UNCHANGED << recommender, models_dir, session, threads >>

NextText == PreprocessText \/ PreprocessAgain

SpecText == InitText /\ [][NextText]_vars

(***************************************************************************)
(* extract_top_skills on its own: a recommender made on any dataset of at  *)
(* most MaxCorpus rows, trained or not, and one call.                      *)
(***************************************************************************)
NextSkills ==
  \/ ret.op = "construct" /\ TrainModel([written |-> 3, torn |-> FALSE])
  \/ /\ ret.op # "extract_top_skills"
     /\ \E top_n \in TopNs : ExtractTopSkills(top_n)

SpecSkills == InitRank /\ [][NextSkills]_vars

(***************************************************************************)
(* JobVisualizer and JobDataAnalyzer: the analytics and the two entry      *)
(* points that compute all of them.  What an analytic computes is kept as  *)
(* its name; faults is the set of computations that raise in the call      *)
(* (a column missing from the dataset, a value of the wrong type, an image *)
(* that cannot be written).                                                *)
(***************************************************************************)
Raised == "Exception"
Dict(items) == [type |-> "dict", items |-> items]
Figure(key) == [type |-> "str", json |-> key]

\* the chart methods of JobVisualizer, by their key in create_all_visualizations
ChartKeys ==
  { "top_jobs", "locations", "work_types", "company_followers", "applications",
    "posting_time", "top_companies" }

\* a chart method called directly: create_top_jobs_chart ... create_top_companies_chart
create_chart(key, faults) ==
  IF key \in faults THEN [exc |-> Raised, value |-> None]
  ELSE [exc |-> "none", value |-> Figure(key)]

SummaryFields ==
  { "total_jobs", "total_companies", "total_locations", "avg_applications",
    "remote_jobs", "recent_jobs_24h" }
\* the computations of create_dashboard_summary: the basic counts, and the
\* three statistics that have a try of their own
SummaryParts == { "basic", "remote_jobs", "recent_jobs_24h", "avg_applications" }

\* JobVisualizer.create_dashboard_summary
create_dashboard_summary(faults) ==
  IF "basic" \in faults
  THEN [exc |-> "none", value |-> Dict({ << f, "default" >> : f \in SummaryFields })]
  ELSE [exc |-> "none",
        value |-> Dict({ << f, IF f \in faults THEN "default" ELSE "computed" >>
                         : f \in SummaryFields })]

\* JobVisualizer.create_all_visualizations
create_all_visualizations(faults) ==
  [exc |-> "none",
   value |-> [key \in ChartKeys \cup { "summary" } |->
                IF key = "summary"
                THEN (IF create_dashboard_summary(faults).exc # "none" THEN Dict({})
                      ELSE create_dashboard_summary(faults).value)
                ELSE (IF create_chart(key, faults).exc # "none" THEN None
                      ELSE create_chart(key, faults).value)]]

\* the methods run_complete_analysis calls, in its order
AnalyzerSteps ==
  << "get_summary_stats", "analyze_top_jobs", "analyze_top_companies",
     "analyze_locations", "analyze_work_types", "analyze_company_followers",
     "analyze_posting_time", "generate_job_wordcloud", "generate_skills_wordcloud",
     "save_stats" >>

\* the keys of the returned stats, with the method that computes each
StatsKeys ==
  [total_jobs |-> "get_summary_stats", total_companies |-> "get_summary_stats",
   total_locations |-> "get_summary_stats", work_types |-> "get_summary_stats",
   avg_applications |-> "get_summary_stats", avg_followers |-> "get_summary_stats",
   job_title_counts |-> "analyze_top_jobs", top_companies |-> "analyze_top_companies",
   top_locations |-> "analyze_locations", work_type_distribution |-> "analyze_work_types",
   company_followers |-> "analyze_company_followers",
   posting_time_summary |-> "analyze_posting_time"]

\* a method of JobDataAnalyzer called directly
analyze(step, faults) ==
  IF step \in faults THEN [exc |-> Raised, value |-> None, at |-> step]
  ELSE [exc |-> "none", value |-> Dict({ << step, "computed" >> }), at |-> "end"]

\* JobDataAnalyzer.run_complete_analysis: the methods one after another, no
\* handler around any of them
run_complete_analysis(faults) ==
  IF \E i \in 1..Len(AnalyzerSteps) : AnalyzerSteps[i] \in faults
  THEN LET first == CHOOSE i \in 1..Len(AnalyzerSteps) :
                      /\ AnalyzerSteps[i] \in faults
                      /\ \A j \in 1..(i - 1) : AnalyzerSteps[j] \notin faults
       IN  [exc |-> Raised, value |-> None, at |-> AnalyzerSteps[first]]
  ELSE [exc |-> "none",
        value |-> [k \in DOMAIN StatsKeys |-> analyze(StatsKeys[k], faults).value],
        at |-> "end"]

VisualizerFaults == SUBSET (ChartKeys \cup SummaryParts)
AnalyzerFaults == SUBSET { AnalyzerSteps[i] : i \in 1..Len(AnalyzerSteps) }

InitBatch ==
  /\ recommender = None
  /\ models_dir = EmptyDir
  /\ session = NoSession
  /\ ret = Call("start", << >>, "none", None, None)
  /\ threads = NoThreads

RunCompleteAnalysis(faults) ==
  /\ ret.op = "start"
  /\ \E r \in { run_complete_analysis(faults) } :
       ret' = Call("run_complete_analysis", [faults |-> faults], r.exc, r.value,
                   [at |-> r.at])
  /\ UNCHANGED << recommender, models_dir, session, threads >>

Analyze(step, faults) ==
  /\ ret.op = "start"
  /\ \E r \in { analyze(step, faults) } :
       ret' = Call("analyze", [faults |-> faults, step |-> step], r.exc, r.value,
                   [at |-> r.at])
  /\ UNCHANGED << recommender, models_dir, session, threads >>

CreateAllVisualizations(faults) ==
  /\ ret.op = "start"
  /\ \E r \in { create_all_visualizations(faults) } :
       ret' = Call("create_all_visualizations", [faults |-> faults], r.exc, r.value, None)
  /\ UNCHANGED << recommender, models_dir, session, threads >>

CreateChart(key, faults) ==
  /\ ret.op = "start"
  /\ \E r \in { create_chart(key, faults) } :
       ret' = Call("create_chart", [faults |-> faults, key |-> key], r.exc, r.value, None)
  /\ UNCHANGED << recommender, models_dir, session, threads >>

CreateDashboardSummary(faults) ==
  /\ ret.op = "start"
  /\ \E r \in { create_dashboard_summary(faults) } :
       ret' = Call("create_dashboard_summary", [faults |-> faults], r.exc, r.value, None)
  /\ UNCHANGED << recommender, models_dir, session, threads >>

NextBatch ==
  \/ \E faults \in AnalyzerFaults : RunCompleteAnalysis(faults)
  \/ \E faults \in AnalyzerFaults, i \in 1..Len(AnalyzerSteps) :
       Analyze(AnalyzerSteps[i], faults)
  \/ \E faults \in VisualizerFaults : CreateAllVisualizations(faults)
  \/ \E faults \in VisualizerFaults, key \in ChartKeys : CreateChart(key, faults)
  \/ \E faults \in VisualizerFaults : CreateDashboardSummary(faults)

SpecBatch == InitBatch /\ [][NextBatch]_vars

(***************************************************************************)
(* Trainings only: instances made on the datasets and trained, over the    *)
(* same models directory; a training fails in fit_transform or in its save *)
(***************************************************************************)
NextTrain ==
  \/ \E csv \in Datasets : Construct(csv)
  \/ \E out \in SaveOutcomes : TrainModel(out)

SpecTrain == Init /\ [][NextTrain]_vars

(***************************************************************************)
(* Two threads on one instance: one runs train_model and load_model, the   *)
(* other get_recommendations.  The class takes no lock, so a step of one   *)
(* thread is one read or one assignment of an attribute of self, and the   *)
(* steps of the two threads interleave freely.  threads.trainer and        *)
(* threads.query name the line each thread is about to run.                *)
(***************************************************************************)
\* the models directory after a training that completed, for each dataset on
\* which training completes
TrainedStores ==
  { train_model(JobRecommender(csv), EmptyDir, 3, FALSE).dir :
      csv \in { d \in Datasets : FitTransform[d].exc = "none" } }

InitConc ==
  /\ recommender \in { JobRecommender(csv) : csv \in Datasets }
  /\ models_dir \in { EmptyDir } \cup TrainedStores
  /\ session = NoSession
  /\ ret = Call("construct", << >>, "none", None, None)
  /\ threads = [NoThreads EXCEPT !.built = { Snapshot(recommender) }]

\* the trainer's call ends (it returns or raises): the instance is between calls
EndCall(self) ==
  threads' = [threads EXCEPT !.trainer = "idle", !.built = @ \cup { Snapshot(self) }]

\* train_model, line 106: prepare_features
Train106 ==
  /\ threads.trainer = "idle"
  /\ recommender' = [recommender EXCEPT !.df = prepare_features(@)]
  /\ threads' = [threads EXCEPT !.trainer = "train_109"]
  /\ UNCHANGED << models_dir, session, ret >>

\* train_model, lines 109-114: self.vectorizer = TfidfVectorizer(...)
Train109 ==
  /\ threads.trainer = "train_109"
  /\ recommender' = [recommender EXCEPT !.vectorizer = NewVectorizer]
  /\ threads' = [threads EXCEPT !.trainer = "train_117"]
  /\ UNCHANGED << models_dir, session, ret >>

\* train_model, line 117, the call: fit_transform fits self.vectorizer in place,
\* or raises
Train117 ==
  /\ threads.trainer = "train_117"
  /\ \E fit \in { FitTransform[recommender.df.rows] } :
       IF fit.exc # "none"
       THEN /\ recommender' = recommender
            /\ EndCall(recommender)
       ELSE /\ recommender' = [recommender EXCEPT !.vectorizer = fit.vectorizer]
            /\ threads' = [threads EXCEPT !.trainer = "train_117_assign"]
  /\ UNCHANGED << models_dir, session, ret >>

\* train_model, line 117, the assignment of self.tfidf_matrix
Train117Assign ==
  /\ threads.trainer = "train_117_assign"
  /\ recommender' = [recommender EXCEPT
                       !.tfidf_matrix = transform(recommender.vectorizer,
                                                  Documents(recommender.df))]
  /\ threads' = [threads EXCEPT !.trainer = "train_122"]
  /\ UNCHANGED << models_dir, session, ret >>

\* train_model, line 122: save_model (here without an I/O failure)
Train122 ==
  /\ threads.trainer = "train_122"
  /\ models_dir' = save_model(recommender, models_dir, 3, FALSE).dir
  /\ EndCall(recommender)
  /\ UNCHANGED << recommender, session, ret >>

\* load_model, one of lines 214-216: joblib.load of a file and the assignment
\* of the attribute, or the return of False when the file cannot be read
LoadStep(line, file, loaded, next) ==
  /\ threads.trainer = line
  /\ IF Readable(file)
     THEN /\ recommender' = loaded
          /\ IF next = "idle" THEN EndCall(loaded)
             ELSE threads' = [threads EXCEPT !.trainer = next]
     ELSE /\ recommender' = recommender
          /\ EndCall(recommender)
  /\ UNCHANGED << models_dir, session, ret >>

Load214 ==
  \E file \in { models_dir.vectorizer } :
    LoadStep("idle", file,
             [recommender EXCEPT !.vectorizer = IF Readable(file) THEN file.obj ELSE @],
             "load_215")

Load215 ==
  \E file \in { models_dir.matrix } :
    LoadStep("load_215", file,
             [recommender EXCEPT !.tfidf_matrix = IF Readable(file) THEN file.obj ELSE @],
             "load_216")

Load216 ==
  \E file \in { models_dir.df } :
    LoadStep("load_216", file,
             [recommender EXCEPT !.df = IF Readable(file) THEN file.obj ELSE @],
             "idle")

\* get_recommendations, line 130: reads self.vectorizer, and raises when it is
\* None or not fitted
Query130 ==
  /\ threads.query \in { "idle", "done", "raised" }
  /\ threads' = [threads EXCEPT
                   !.seen = [NoThreads.seen EXCEPT !.read = { "vectorizer" },
                                                  !.vectorizer = recommender.vectorizer],
                   !.query = IF recommender.vectorizer = None
                                \/ ~recommender.vectorizer.fitted
                             THEN "raised" ELSE "query_133"]
  /\ UNCHANGED << recommender, models_dir, session, ret >>

\* get_recommendations, line 133: reads self.tfidf_matrix, and raises when its
\* columns are not those of the vectorizer read at line 130
Query133 ==
  /\ threads.query = "query_133"
  /\ threads' = [threads EXCEPT
                   !.seen.read = @ \cup { "tfidf_matrix" },
                   !.seen.tfidf_matrix = recommender.tfidf_matrix,
                   !.query = IF recommender.tfidf_matrix # None
                                /\ recommender.tfidf_matrix.n_cols
                                     # Len(threads.seen.vectorizer.vocabulary_)
                             THEN "raised" ELSE "query_139"]
  /\ UNCHANGED << recommender, models_dir, session, ret >>

\* get_recommendations, line 139: reads self.df
Query139 ==
  /\ threads.query = "query_139"
  /\ threads' = [threads EXCEPT !.seen.read = @ \cup { "rows" },
                                !.seen.rows = recommender.df.rows,
                                !.query = "done"]
  /\ UNCHANGED << recommender, models_dir, session, ret >>

NextConc ==
  \/ Train106 \/ Train109 \/ Train117 \/ Train117Assign \/ Train122
  \/ Load214 \/ Load215 \/ Load216
  \/ Query130 \/ Query133 \/ Query139

SpecConc == InitConc /\ [][NextConc]_vars

(***************************************************************************)
(* Properties of get_recommendations, checked under SpecRank.  After a     *)
(* call ret.args holds its arguments, ret.value the records returned and   *)
(* ret.aux the candidate pool (top_indices, row positions counted from 1). *)
(***************************************************************************)
Ranked == ret.op = "get_recommendations" /\ ret.exc = "none" /\ ret.args.top_n >= 0

\* the similarity of every corpus row to the query of the last call
RowSims == similarities(recommender, ret.args.query)

\* C1: for every trained index, every query and every non-negative N,
\* get_recommendations(query, top_n=N) returns at most N records, and their
\* similarity_score values are non-increasing from first to last, with or
\* without location/work-type filters.
C1_AtMostTopNNonIncreasing ==
  Ranked =>
    /\ Len(ret.value) <= ret.args.top_n
    /\ \A k \in 1..(Len(ret.value) - 1) :
         ~SimLess(ret.value[k].similarity_score, ret.value[k + 1].similarity_score)

\* C1's case: a filtered call that returns top_n = 2 records of strictly
\* decreasing similarity out of a larger pool
C1_Witness ==
  /\ Ranked
  /\ ret.args.top_n = 2
  /\ FilterGiven(ret.args.location_filter)
  /\ Len(ret.aux) > 2
  /\ Len(ret.value) = 2
  /\ SimLess(ret.value[2].similarity_score, ret.value[1].similarity_score)

\* C2: the candidate pool has exactly min(corpus_size, top_n * 3) rows, they are
\* the rows of highest similarity, and of two rows of equal similarity the one
\* with the smaller row index is selected first and stands earlier in the pool.
C2_PoolTiesByRowIndex ==
  (Ranked /\ ret.args.top_n >= 1) =>
    LET pool == ret.aux
        n    == Len(recommender.df.rows)
        In(i) == \E k \in 1..Len(pool) : pool[k] = i
    IN  /\ Len(pool) = Min(n, ret.args.top_n * 3)
        /\ \A i \in 1..n : \A k \in 1..Len(pool) :
             ~In(i) => ~SimLess(RowSims[pool[k]], RowSims[i])
        /\ \A i, j \in 1..n :
             (i < j /\ RowSims[i] = RowSims[j] /\ In(j)) => In(i)
        /\ \A j, k \in 1..Len(pool) :
             (j < k /\ RowSims[pool[j]] = RowSims[pool[k]]) => pool[j] < pool[k]

\* case-insensitive substring match of a filter in a field; a field that is
\* missing contains nothing
Substring(f, value) ==
  /\ value # NaN
  /\ \E off \in 0..(Len(value) - Len(f)) :
       \A i \in 1..Len(f) : LowerChar(f[i]) = LowerChar(value[off + i])

\* C3: the result is exactly the first top_n pool entries, in pool order, whose
\* location contains the location filter and whose work_type contains the
\* work-type filter (case-insensitive substring match); no record outside the
\* pool is returned.
C3_FirstTopNSubstringMatches ==
  Ranked =>
    ret.value =
      Prefix(SelectSeq(candidates(recommender, RowSims, ret.aux),
                       LAMBDA r :
                         /\ FilterGiven(ret.args.location_filter)
                              => Substring(ret.args.location_filter, r.location)
                         /\ FilterGiven(ret.args.work_type_filter)
                              => Substring(ret.args.work_type_filter, r.work_type)),
             ret.args.top_n)

(***************************************************************************)
(* Properties of the recommender's lifecycle, checked under Spec           *)
(***************************************************************************)
\* C4: ranking, clustering or skill extraction invoked while the vectorizer or
\* the matrix is None fails with an error that reaches the caller; it never
\* returns a result.
C4_UntrainedCallFails ==
  (/\ ret.op \in { "get_recommendations", "extract_top_skills", "cluster_jobs" }
   /\ (recommender.vectorizer = None \/ recommender.tfidf_matrix = None))
    => ret.exc # "none"

\* C6: every triple load_model reports as loaded was written by one single
\* completed save: the vectorizer and the matrix it loaded are those written by
\* the save that wrote the corpus file, the last one to complete.
C6_LoadedTripleFromOneSave ==
  (ret.op = "load_model" /\ ret.value = TRUE) =>
    /\ recommender.vectorizer = models_dir.last_save.vectorizer
    /\ recommender.tfidf_matrix = models_dir.last_save.tfidf_matrix

AllReadable ==
  Readable(models_dir.vectorizer) /\ Readable(models_dir.matrix) /\ Readable(models_dir.df)

\* C7: load_model never raises; it returns False whenever one of the three
\* artifacts is missing or unreadable, and True only when all three were read.
C7_LoadNeverRaises ==
  ret.op = "load_model" =>
    /\ ret.exc = "none"
    /\ ret.value \in BOOLEAN
    /\ ret.value = TRUE <=> AllReadable

\* C7's case: load_model returned False on a directory whose vectorizer file is
\* readable and whose corpus file is truncated
C7_Witness ==
  /\ ret.op = "load_model"
  /\ ret.value = FALSE
  /\ Readable(models_dir.vectorizer)
  /\ models_dir.df = Corrupt

\* C8: when load_model returns False, the in-memory vectorizer, matrix and
\* corpus are unchanged from their values before the call.
C8_FailedLoadChangesNothing ==
  [][(ret'.op = "load_model" /\ ret'.value = FALSE) => recommender' = recommender]_vars

\* C10: whenever a matrix is loaded it has as many rows as the in-memory corpus,
\* row i is the vector of corpus record i, and its columns are the positions of
\* the in-memory vectorizer's vocabulary.
C10_MatrixMatchesCorpusAndVocabulary ==
  (recommender # None /\ recommender.tfidf_matrix # None) =>
    /\ recommender.vectorizer # None
    /\ recommender.vectorizer.fitted
    /\ recommender.tfidf_matrix.n_cols = Len(recommender.vectorizer.vocabulary_)
    /\ Len(recommender.tfidf_matrix.rows) = Len(recommender.df.rows)
    /\ \A i \in 1..Len(recommender.df.rows) :
         recommender.tfidf_matrix.rows[i]
           = transform_row(recommender.vectorizer,
                           processed_features(recommender.df.rows[i]))

\* C11: retraining replaces and never merges: after a train_model whose fit
\* completes, on an instance that held a matrix of any size, the matrix has
\* exactly as many rows as the corpus trained on and the vocabulary is the one
\* built from that corpus only.
C11_RetrainReplaces ==
  (ret.op = "train_model" /\ ret.exc # "ValueError") =>
    /\ MatrixRows(recommender) = Len(recommender.df.rows)
    /\ recommender.vectorizer.vocabulary_
         = fit_transform(Documents(recommender.df)).vectorizer.vocabulary_
    /\ recommender.tfidf_matrix.n_cols = Len(recommender.vectorizer.vocabulary_)

\* C11's case: a training that completed on an instance that held the matrix
\* of a corpus of another size
C11_Witness ==
  /\ ret.op = "train_model"
  /\ ret.exc = "none"
  /\ ret.aux.rows_before > 0
  /\ ret.aux.rows_before # Len(recommender.df.rows)

\* C12: get_recommendations, extract_top_skills and cluster_jobs leave the
\* vectorizer, the matrix and the corpus (its rows and its set of fields)
\* unchanged.
C12_QueriesReadOnly ==
  [][ret'.op \in { "get_recommendations", "extract_top_skills", "cluster_jobs" }
       => /\ recommender'.vectorizer = recommender.vectorizer
          /\ recommender'.tfidf_matrix = recommender.tfidf_matrix
          /\ recommender'.df.rows = recommender.df.rows
          /\ recommender'.df.columns = recommender.df.columns]_vars

(***************************************************************************)
(* Properties of the application, checked under SpecApp                    *)
(***************************************************************************)
\* C5: a search request of a logged-in client whose query text is empty or
\* missing is answered with the invalid-query error (400, 'Query is
\* required'); nothing else in the request can fail first.
C5_EmptyQueryIsInvalidQuery ==
  (/\ ret.op = "search_jobs"
   /\ ret.aux.logged_in
   /\ ret.args # None
   /\ get_text(ret.args.query, << >>) = << >>)
    => ret.value = Response(400, "Query is required")

Started == ret.op = "initialize_app" /\ ret.aux.csv_found

\* C9, as amended: startup invokes train_model exactly when load_model reports
\* absence, so always on an empty store; a training that completes leaves a
\* fitted vocabulary of size greater than 0; a training on a corpus of one or
\* two records does not complete but raises ValueError.
C9_TrainsOnAbsence ==
  Started =>
    /\ ret.aux.trained <=> ~ret.aux.loaded
    /\ ret.aux.store_empty => (ret.aux.trained /\ recommender.vectorizer # None)
    /\ (ret.aux.trained /\ ret.exc = "none") =>
         /\ recommender.vectorizer.fitted
         /\ Len(recommender.vectorizer.vocabulary_) > 0
    /\ (ret.aux.trained /\ ret.aux.corpus_size <= 2) => ret.exc = "ValueError"

\* C9's case: a startup on an empty store that trained and completed
C9_Witness ==
  /\ Started
  /\ ret.aux.store_empty
  /\ ret.aux.trained
  /\ ret.exc = "none"
  /\ Len(recommender.vectorizer.vocabulary_) > 0

\* C9 as stated: on an empty store, for any non-empty corpus, training is
\* invoked and (when writing the model does not fail) completes with a
\* vocabulary of size greater than 0.
C9_AsStated ==
  (Started /\ ret.aux.store_empty /\ ret.aux.corpus_size > 0 /\ ret.exc # "OSError") =>
    /\ ret.aux.trained
    /\ ret.exc = "none"
    /\ recommender.vectorizer.fitted
    /\ Len(recommender.vectorizer.vocabulary_) > 0

\* the views of the routes under login_required
ProtectedViews ==
  { "dashboard", "search_page", "recommendations_page", "get_visualizations",
    "search_jobs", "get_stats", "get_top_skills", "get_filters" }

\* a protected request calls a component only when the session it came with
\* holds 'logged_in'; without it the request is redirected to the login page
GuardedRequest ==
  ret.op \in ProtectedViews =>
    /\ ret.aux.invoked # {} => ret.aux.logged_in
    /\ ~ret.aux.logged_in => (ret.value = RedirectToLogin /\ ret.aux.invoked = {})

\* one request: it is judged by the session it came with; the session gets
\* 'logged_in' only in a login whose pair is in USERS, changes only in a login
\* or a logout, and holds no 'logged_in' after a logout
GuardedStep ==
  /\ ret'.op \in ProtectedViews => ret'.aux.logged_in = session.logged_in
  /\ (~session.logged_in /\ session'.logged_in) =>
       /\ ret'.op = "login"
       /\ \E u \in DOMAIN USERS :
            ret'.args.username = u /\ ret'.args.password = USERS[u]
  /\ session' # session => ret'.op \in { "login", "logout" }
  /\ ret'.op = "logout" => ~session'.logged_in

\* C21: across any sequence of login, logout and page/API requests, a request
\* to a login-protected route invokes the recommender, analyzer or visualizer
\* only if the session holds 'logged_in'; 'logged_in' is set only by a login
\* POST whose username/password pair is in USERS; and after logout every
\* protected request is redirected to login until a new successful login.
C21_ProtectedRoutesNeedLogin == [](GuardedRequest) /\ [][GuardedStep]_vars

\* C21's cases: a protected request that called the recommender, in a session
\* that a login made; and a protected request redirected once the session is
\* cleared again
C21_Witness ==
  /\ ret.op = "search_jobs"
  /\ ret.aux.logged_in
  /\ ret.aux.invoked = { "recommender" }
  /\ ret.value.status = 200
  /\ session.username = "admin"

(***************************************************************************)
(* Properties of the two threads, checked under SpecConc                   *)
(***************************************************************************)
\* C13: no query running concurrently with train_model or load_model on the
\* same instance reads a half-built index: what a query that has ended (it
\* returned or raised) read of the vectorizer, the matrix and the corpus is part
\* of one state the instance was in between the trainer's calls.
C13_QueryReadsOneBuiltIndex ==
  threads.query \in { "done", "raised" } =>
    \E b \in threads.built :
      /\ "vectorizer" \in threads.seen.read => threads.seen.vectorizer = b.vectorizer
      /\ "tfidf_matrix" \in threads.seen.read
           => threads.seen.tfidf_matrix = b.tfidf_matrix
      /\ "rows" \in threads.seen.read => threads.seen.rows = b.rows

(***************************************************************************)
(* Properties of sequences of trainings, checked under SpecTrain           *)
(***************************************************************************)
\* C14: after a train_model that completes without error, loading the
\* persisted triple gives the vectorizer, matrix and processed corpus just
\* built; and after any sequence of successful and failed trainings the
\* persisted model is the snapshot of the last successful training.
C14_PersistedIsLastSuccessfulTraining ==
  /\ (ret.op = "train_model" /\ ret.exc = "none") =>
       /\ load_model(JobRecommender(<< >>), models_dir).value
       /\ load_model(JobRecommender(<< >>), models_dir).self = recommender
  /\ models_dir.last_save.vectorizer # None =>
       /\ AllReadable
       /\ models_dir.vectorizer.obj = models_dir.last_save.vectorizer
       /\ models_dir.matrix.obj = models_dir.last_save.tfidf_matrix

(***************************************************************************)
(* Properties of the vocabulary, checked under SpecVocab                   *)
(***************************************************************************)
\* a term (a word, or two words and the space between them) occurs in a
\* processed document: as whole words, next to each other
Occurs(term, doc) ==
  LET pat  == << " " >> \o term \o << " " >>
      text == << " " >> \o doc \o << " " >>
  IN  \E off \in 0..(Len(text) - Len(pat)) :
        \A i \in 1..Len(pat) : pat[i] = text[off + i]

\* the number of processed documents of the in-memory corpus a term occurs in
DocumentCount(term) ==
  Cardinality({ i \in 1..Len(recommender.df.rows) :
                  Occurs(term, processed_features(recommender.df.rows[i])) })

\* C15: for any corpus on which training succeeds, the vocabulary has at most
\* 1000 terms, and every vocabulary term occurs in at least 2 documents and in
\* at most 80% of the documents of the corpus; the same of the terms
\* _limit_features keeps of a corpus with more than 1000 terms.
C15_VocabularyBounds ==
  /\ (ret.op = "train_model" /\ ret.exc = "none") =>
       /\ Len(recommender.vectorizer.vocabulary_) <= 1000
       /\ \A j \in 1..Len(recommender.vectorizer.vocabulary_) :
            /\ DocumentCount(recommender.vectorizer.vocabulary_[j]) >= 2
            /\ 10 * DocumentCount(recommender.vectorizer.vocabulary_[j])
                 <= 8 * Len(recommender.df.rows)
  /\ ret.op = "limit_features" =>
       /\ Cardinality(ret.value) <= 1000
       /\ \A t \in ret.value :
            ret.args.dfs[t] >= 2 /\ 10 * ret.args.dfs[t] <= 8 * ret.args.n_doc

\* C15's case: a training that succeeded on a corpus of which one term is in
\* the vocabulary, one was dropped for occurring in one document only and one
\* for occurring in more than 80% of the documents
C15_Witness ==
  /\ ret.op = "train_model"
  /\ ret.exc = "none"
  /\ Len(recommender.vectorizer.vocabulary_) > 0
  /\ DocumentCount(<< "w", "e", "b" >>) = 1
  /\ DocumentCount(<< "d", "e", "v" >>) = Len(recommender.df.rows)

(***************************************************************************)
(* Properties of preprocess_text, checked under SpecText                   *)
(***************************************************************************)
\* the characters of s occur in t, in the order of s
RECURSIVE IsSubsequence(_, _)
IsSubsequence(s, t) ==
  IF s = << >> THEN TRUE
  ELSE IF t = << >> THEN FALSE
  ELSE IF Head(s) = Head(t) THEN IsSubsequence(Tail(s), Tail(t))
  ELSE IsSubsequence(s, Tail(t))

\* the tokens of a result of preprocess_text: its pieces between the spaces
OutputTokens(text) == Runs(text, << >>, "nonspace")

Extracted == ret.op = "extract_top_skills" /\ ret.exc = "none"

\* the vocabulary index of a term
VocabularyIndex(term) ==
  CHOOSE k \in 1..Len(recommender.vectorizer.vocabulary_) :
    recommender.vectorizer.vocabulary_[k] = term

\* the aggregate weight of a term: the sum of its column of the matrix
AggregateWeight(k) ==
  SumOver([i \in 1..Len(recommender.tfidf_matrix.rows) |->
             recommender.tfidf_matrix.rows[i][k]],
          1..Len(recommender.tfidf_matrix.rows))

\* C17: extract_top_skills(n) returns (term, column sum) pairs in descending
\* order of aggregate weight; of two terms of equal weight the one with the
\* smaller vocabulary index is selected first and stands earlier.
C17_SkillsDescendingTiesByIndex ==
  (Extracted /\ ret.args.top_n >= 1) =>
    LET skills == ret.value
        n      == Len(recommender.vectorizer.vocabulary_)
        Ix(k)  == VocabularyIndex(skills[k][1])
        In(i)  == \E k \in 1..Len(skills) : Ix(k) = i
    IN  /\ \A k \in 1..Len(skills) :
             /\ \E i \in 1..n : recommender.vectorizer.vocabulary_[i] = skills[k][1]
             /\ skills[k][2] = [num |-> AggregateWeight(Ix(k)), den |-> 1]
        /\ \A j, k \in 1..Len(skills) :
             j < k => /\ AggregateWeight(Ix(j)) >= AggregateWeight(Ix(k))
                      /\ AggregateWeight(Ix(j)) = AggregateWeight(Ix(k)) => Ix(j) < Ix(k)
        /\ \A i \in 1..n : \A k \in 1..Len(skills) :
             ~In(i) => /\ AggregateWeight(i) <= AggregateWeight(Ix(k))
                       /\ AggregateWeight(i) = AggregateWeight(Ix(k)) => Ix(k) < i

(***************************************************************************)
(* Missing fields in the documents of the index, checked under SpecVocab   *)
(***************************************************************************)
\* C19: when the index is built, a record whose job_details is missing
\* contributes no description tokens: its processed document is
\* preprocess_text of its title, and holds no word made of the missing value.
C19_NullDescriptionNoTokens ==
  (ret.op = "train_model" /\ ret.exc = "none") =>
    \A i \in 1..Len(recommender.df.rows) :
      recommender.df.rows[i].job_details = NaN =>
        Documents(recommender.df)[i] = preprocess_text(recommender.df.rows[i].job)

\* C20: for every n >= 0 and every trained index, extract_top_skills(top_n=n)
\* returns exactly min(n, vocabulary size) entries; n = 0 returns an empty list.
C20_ExactlyMinEntries ==
  (Extracted /\ ret.args.top_n >= 0) =>
    Len(ret.value) = Min(ret.args.top_n, Len(recommender.vectorizer.vocabulary_))

(***************************************************************************)
(* Properties of the batch entry points, checked under SpecBatch           *)
(***************************************************************************)
\* the value create_all_visualizations gives for an analytic that raised
EmptyOrDefault(value) ==
  \/ value = None
  \/ value = Dict({})
  \/ value = Dict({ << f, "default" >> : f \in SummaryFields })

\* C18: in both entry points that compute everything, an error raised by one
\* analytic gives an empty or default value for that analytic only, and the
\* batch returns the results of all the others; the same analytic called
\* directly propagates its error.
C18_BatchIsolatesDirectPropagates ==
  /\ ret.op = "run_complete_analysis" =>
       /\ ret.exc = "none"
       /\ \A k \in DOMAIN StatsKeys :
            StatsKeys[k] \notin ret.args.faults =>
              ret.value[k] = Dict({ << StatsKeys[k], "computed" >> })
  /\ ret.op = "create_all_visualizations" =>
       /\ ret.exc = "none"
       /\ \A key \in ChartKeys :
            IF key \in ret.args.faults THEN ret.value[key] = None
            ELSE ret.value[key] = Figure(key)
       /\ "basic" \in ret.args.faults => EmptyOrDefault(ret.value["summary"])
       /\ ret.args.faults \cap SummaryParts = {} =>
            ret.value["summary"] = Dict({ << f, "computed" >> : f \in SummaryFields })
  /\ ret.op = "analyze" => (ret.args.step \in ret.args.faults <=> ret.exc # "none")
  /\ ret.op = "create_chart" => (ret.args.key \in ret.args.faults <=> ret.exc # "none")
  /\ ret.op = "create_dashboard_summary" =>
       (ret.args.faults \cap SummaryParts # {} <=> ret.exc # "none")

====
